---- MODULE Spec2Model ----
(***************************************************************************)
(* The self-healing gRPC client of simple-crud (cmd/grpc-client, the file  *)
(* src/unnamed/part_003; cmd/grpc-client-balanced/main.go is the same      *)
(* watcher and worker): dnsWatcher polls DNS and sends on the buffered     *)
(* channel notify, grpcWorker owns conn/client, reconnects on a received   *)
(* signal, issues one GetAll per default iteration and sleeps a jittered   *)
(* backoff; main waits for SIGINT/SIGTERM and exits.                       *)
(*                                                                         *)
(* Strings are sequences of byte codes, so that sort.Strings, json.Marshal *)
(* and the comparison of hashes are computed, not assumed.                 *)
(***************************************************************************)
EXTENDS Integers, Sequences, FiniteSets, TLC

\* ------------------------------------------------------------------ bounds
\* longest address list given to the fingerprint computation
MaxAddrs == 2
\* longest run of consecutive failed resolutions that is explored
MaxStreak == 4
\* number of connections grpc.NewClient hands out before it only fails
MaxConn == 2
\* longest generated value of the environment variable CLIENT_MAX_SLEEP_MS
MaxValLen == 2
\* longest host name in a target given to the watcher
MaxHostLen == 3

\* ------------------------------------------------------ program constants
\* capacity of notify: make(chan struct{}, 1)
NotifyCap == 1
\* strconv.ParseInt(val, 10, 16) and the fallback of setInt64
Base == 10
BitSize == 16
Fallback == 1000
\* if consecutiveFail >= 3
FailThreshold == 3

\* ------------------------------------------------------------------ values
\* addresses resolvePods can return: "10.0.0.1", "10.0.0.2", "10.0.0.3" as bytes
Addr1 == <<49, 48, 46, 48, 46, 48, 46, 49>>
Addr2 == <<49, 48, 46, 48, 46, 48, 46, 50>>
Addr3 == <<49, 48, 46, 48, 46, 48, 46, 51>>
Addresses == {Addr1, Addr2, Addr3}
\* every []string of at most MaxAddrs of them (order and repeats free): the
\* inputs of the fingerprint computation
AddrLists == UNION {[1..n -> Addresses] : n \in 0..MaxAddrs}
\* the lists the resolver of the running watcher answers with: none, one
\* address, two addresses in both orders, one address repeated
PollLists == {<<>>, <<Addr1>>, <<Addr1, Addr2>>, <<Addr2, Addr1>>, <<Addr1, Addr1>>}
\* the zero value of a Go string (var lastHash string)
EmptyString == <<>>
\* a nil *grpc.ClientConn / nil pb.ProductServiceClient
Nil == 0
Conns == 1..MaxConn

\* ------------------------------------------------------- pure functions
\* a < b for Go strings: byte-wise lexicographic order
RECURSIVE StringLess(_, _)
StringLess(a, b) ==
    IF b = <<>> THEN FALSE
    ELSE IF a = <<>> THEN TRUE
    ELSE IF Head(a) < Head(b) THEN TRUE
    ELSE IF Head(a) > Head(b) THEN FALSE
    ELSE StringLess(Tail(a), Tail(b))

\* insert x into the ascending list s, after the elements not greater than x
RECURSIVE Insert(_, _)
Insert(x, s) ==
    IF s = <<>> THEN <<x>>
    ELSE IF StringLess(x, Head(s)) THEN <<x>> \o s
    ELSE <<Head(s)>> \o Insert(x, Tail(s))

RECURSIVE SortAscending(_)
SortAscending(s) == IF s = <<>> THEN <<>> ELSE Insert(Head(s), SortAscending(Tail(s)))

\* sort.Strings(addrs): the list in ascending lexicographic order
\* (variant: the list left in the order the resolver returned it)
SortStringsUnsorted(s) == s
SortStrings(s) == SortAscending(s)

\* json.Marshal of one string: quoted, with '"' and '\' escaped by '\'
\* (the addresses of the model hold digits and dots only)
RECURSIVE JsonEscape(_)
JsonEscape(str) ==
    IF str = <<>> THEN <<>>
    ELSE (IF Head(str) \in {34, 92} THEN <<92, Head(str)>> ELSE <<Head(str)>>)
         \o JsonEscape(Tail(str))

JsonString(str) == <<34>> \o JsonEscape(str) \o <<34>>

RECURSIVE JsonElements(_)
JsonElements(s) ==
    IF s = <<>> THEN <<>>
    ELSE IF Len(s) = 1 THEN JsonString(Head(s))
    ELSE JsonString(Head(s)) \o <<44>> \o JsonElements(Tail(s))

\* json.Marshal(addresses) for a []string: ["a","b"], and [] for the empty
\* list (a nil slice, which a successful lookup does not return, gives null)
\* (variant: only the first element is encoded)
JsonMarshalFirstOnly(s) == <<91>> \o (IF s = <<>> THEN <<>> ELSE JsonString(Head(s))) \o <<93>>
JsonMarshal(s) == <<91>> \o JsonElements(s) \o <<93>>

\* sha256.Sum256(j) as a string: a non-empty digest, taken to be free of
\* collisions (the digest is represented by a tag followed by its preimage)
Sum256(bytes) == <<256>> \o bytes

\* hashAddresses
\* (variant: the empty list has the empty string as its hash)
hashAddressesEmptyForNone(addresses) ==
    IF addresses = <<>> THEN EmptyString ELSE Sum256(JsonMarshal(addresses))
hashAddresses(addresses) == Sum256(JsonMarshal(addresses))

\* newHash != lastHash
\* (variant: every successful resolution counts as a change)
HashDiffersAlways(newHash, last) == TRUE
HashDiffers(newHash, last) == newHash # last

\* consecutiveFail >= 3
\* (variant: > instead of >=)
ThresholdReachedLate(n) == n > FailThreshold
ThresholdReached(n) == n >= FailThreshold

\* consecutiveFail = 0 after a successful resolution
\* (variant: the reset is missing)
CounterAfterSuccessKept(n) == n
CounterAfterSuccess(n) == 0

\* lastHash = newHash
\* (variant: the assignment is missing)
LastHashAfterChangeKept(newHash, last) == last
LastHashAfterChange(newHash, last) == newHash

\* a channel of capacity NotifyCap holding n values: can a send proceed,
\* and what it holds after a send and after a receive
\* (variants: a send that never waits for room; a send whose value is lost)
ChanCanSendAlways(n) == TRUE
ChanCanSend(n) == n < NotifyCap
ChanAfterSendLost(n) == n
ChanAfterSend(n) == n + 1
ChanAfterRecv(n) == n - 1

\* ----------------------------------------------- setInt64 and the delay
\* values of the environment variable: every string of up to MaxValLen of
\* these characters, and decimal strings at the ends of the 16-bit range
EnvChars == {"0", "1", "2", "-", "x"}
EnvValues ==
    UNION {[1..n -> EnvChars] : n \in 0..MaxValLen}
    \cup { <<"+", "2">>, <<"3", "2", "7", "6", "7">>, <<"3", "2", "7", "6", "8">>,
           <<"-", "3", "2", "7", "6", "9">> }

DigitChars == <<"0", "1", "2", "3", "4", "5", "6", "7", "8", "9">>
IsDigit(c) == \E i \in 1..Base : DigitChars[i] = c
DigitValue(c) == (CHOOSE i \in 1..Base : DigitChars[i] = c) - 1

RECURSIVE DigitsValue(_)
DigitsValue(s) ==
    IF s = <<>> THEN 0
    ELSE DigitsValue(SubSeq(s, 1, Len(s) - 1)) * Base + DigitValue(s[Len(s)])

\* strconv.ParseInt(s, 10, 16): an optional sign and decimal digits; a
\* syntax error otherwise, a range error outside -2^15 .. 2^15 - 1
ParseInt(s) ==
    LET signed == s # <<>> /\ s[1] \in {"+", "-"}
        neg == s # <<>> /\ s[1] = "-"
        digits == IF signed THEN Tail(s) ELSE s
    IN  IF digits = <<>> \/ \E i \in 1..Len(digits) : ~IsDigit(digits[i])
        THEN [num |-> 0, err |-> "syntax"]
        ELSE LET v == IF neg THEN 0 - DigitsValue(digits) ELSE DigitsValue(digits)
             IN  IF v > 2^(BitSize - 1) - 1
                 THEN [num |-> 2^(BitSize - 1) - 1, err |-> "range"]
                 ELSE IF v < 0 - 2^(BitSize - 1)
                 THEN [num |-> 0 - 2^(BitSize - 1), err |-> "range"]
                 ELSE [num |-> v, err |-> "nil"]

\* setInt64: the fallback for an unset (empty) or unparsable value
setInt64(v) ==
    IF v = <<>> THEN Fallback
    ELSE IF ParseInt(v).err # "nil" THEN Fallback
    ELSE ParseInt(v).num

\* rand.Intn(n): panics for n <= 0, else returns some r with 0 <= r < n
\* (variant: an r with 0 <= r <= n)
IntnPanics(n) == n <= 0
IntnInclusive(n) == 0..n
Intn(n) == 0..(n - 1)

\* rand.Intn(int(cfg.ClientMaxSleepMs)) + 1, in milliseconds
DelayOutcomes(n) == {r + 1 : r \in Intn(n)}

\* ------------------------------------------- the watcher's host name
\* targets [marker]host[:port]: the marker is "dns://", also with a third
\* slash; host names are made of these characters
DnsPrefix == <<"d", "n", "s", ":", "/", "/">>
Markers == {<<>>, DnsPrefix, DnsPrefix \o <<"/">>}
HostChars == {"d", "s", ".", "1"}
Hosts == UNION {[1..n -> HostChars] : n \in 1..MaxHostLen}
Ports == {<<>>, <<":", "5">>, <<":", "5", "0">>}
Targets == {m \o h \o p : m \in Markers, h \in Hosts, p \in Ports}

\* strings.HasPrefix, strings.TrimPrefix
HasPrefix(s, prefix) ==
    Len(s) >= Len(prefix) /\ SubSeq(s, 1, Len(prefix)) = prefix
TrimPrefix(s, prefix) ==
    IF HasPrefix(s, prefix) THEN SubSeq(s, Len(prefix) + 1, Len(s)) ELSE s

\* strings.TrimLeft(s, cutset): without the leading characters of cutset
\* (variant: nothing is trimmed)
TrimLeftNothing(s, cutset) == s
RECURSIVE TrimLeft(_, _)
TrimLeft(s, cutset) ==
    IF s # <<>> /\ s[1] \in cutset THEN TrimLeft(Tail(s), cutset) ELSE s

\* strings.Split(s, sep)[0] for a one-character sep: s up to the first sep
RECURSIVE SplitFirst(_, _)
SplitFirst(s, sep) ==
    IF s = <<>> \/ s[1] = sep THEN <<>>
    ELSE <<s[1]>> \o SplitFirst(Tail(s), sep)

\* cleanHost as dnsWatcher computes it from host
CleanHost(h) ==
    LET stripped == IF HasPrefix(h, DnsPrefix)
                    THEN TrimLeft(TrimPrefix(h, DnsPrefix), {"/"})
                    ELSE h
    IN  SplitFirst(stripped, ":")

\* ------------------------------------------------------ history helpers
Range(s) == {s[i] : i \in 1..Len(s)}
Count(x, s) == Cardinality({i \in 1..Len(s) : s[i] = x})
\* s and t hold the same addresses the same number of times, in any order
IsPermutation(s, t) ==
    /\ Len(s) = Len(t)
    /\ \A x \in Range(s) \cup Range(t) : Count(x, s) = Count(x, t)
\* resolvePods has returned a list at least once
PolledOk(kind) == kind \in {"same", "reordered", "changed"}

\* ------------------------------------------------------------------ state
VARIABLES
    cancelled,        \* globalCtx.Done() is closed (SIGINT/SIGTERM arrived)
    mainpc,           \* main: "wait", "grace" (the 100 ms sleep), "exited"
    notify,           \* number of values buffered in the channel notify
    wpc,              \* dnsWatcher: "check","resolve","notifyFail","notifyChange","sleep","done"
    lastHash,         \* dnsWatcher's lastHash
    consecutiveFail,  \* dnsWatcher's consecutiveFail
    addrs,            \* what the latest successful resolvePods returned
    lastPoll,         \* history: the latest resolvePods: "none", "fail", or, against
                      \* the previous successful one, "same" (equal list), "reordered"
                      \* (same addresses, other order), "changed" (also the first)
    ended,            \* history: the length of the run of failures the latest success
                      \* ended, when shorter than the threshold (else 0)
    streak,           \* history: failed resolutions since the latest success
    sentIter,         \* history: sends completed in the watcher's current iteration
    kpc,              \* grpcWorker: "start","select","disconnect","connect","call","backoff","deferred","done"
    conn,             \* the global conn: Nil or a connection
    client,           \* the global client: Nil or the connection its stub wraps
    closes,           \* history: per connection, the number of Close() calls
    opened,           \* number of connections grpc.NewClient has returned
    lastConnect,      \* history: outcome of the latest connect(): "none","ok","err"
    stale,            \* history: 0 converged, 1 change observed and no reconnect
                      \* begun since, 2 a reconnect begun since is running
    sigConn,          \* history: the connection open when the signal arrived
    hpc,              \* fingerprint computation: "idle", "first", "second", "done"
    addrsA, addrsB,   \* the lists two successive resolutions return
    hashA, hashB,     \* the newHash the watcher computes for each
    upc,              \* function under examination: "idle", then its steps
    val,              \* setInt64: the value of the environment variable
    ClientMaxSleepMs, \* cfg.ClientMaxSleepMs as setInt64 returned it
    delay,            \* the worker's delay in milliseconds
    host,             \* dnsWatcher: the target it was given
    cleanHost         \* dnsWatcher: the name it resolves

vars == <<cancelled, mainpc, notify, wpc, lastHash, consecutiveFail,
          addrs, lastPoll, ended, streak, sentIter, kpc, conn, client, closes, opened,
          lastConnect, stale, sigConn, hpc, addrsA, addrsB, hashA, hashB,
          upc, val, ClientMaxSleepMs, delay, host, cleanHost>>

mainVars == <<mainpc, sigConn>>
watcherVars == <<wpc, lastHash, consecutiveFail, addrs, lastPoll, ended, streak, sentIter>>
workerVars == <<kpc, conn, client, closes, opened, lastConnect>>
hashVars == <<hpc, addrsA, addrsB, hashA, hashB>>
unitVars == <<upc, val, ClientMaxSleepMs, delay, host, cleanHost>>

Init ==
    /\ cancelled = FALSE
    /\ mainpc = "wait"
    /\ notify = 0
    /\ wpc = "check"
    /\ lastHash = EmptyString
    /\ consecutiveFail = 0
    /\ addrs = <<>>
    /\ lastPoll = "none"
    /\ ended = 0
    /\ streak = 0
    /\ sentIter = 0
    /\ kpc = "start"
    /\ conn = Nil
    /\ client = Nil
    /\ closes = [c \in Conns |-> 0]
    /\ opened = 0
    /\ lastConnect = "none"
    /\ stale = 0
    /\ sigConn = Nil
    /\ hpc = "idle"
    /\ addrsA = <<>>
    /\ addrsB = <<>>
    /\ hashA = EmptyString
    /\ hashB = EmptyString
    /\ upc = "idle"
    /\ val = <<>>
    /\ ClientMaxSleepMs = 0
    /\ delay = 0
    /\ host = <<>>
    /\ cleanHost = <<>>

\* the process is alive: goroutines run until main returns or calls os.Exit
Running == mainpc # "exited"

\* ------------------------------------------------------------------- main
\* SIGINT or SIGTERM: signal.NotifyContext cancels globalCtx
Signal ==
    /\ Running
    /\ ~cancelled
    /\ cancelled' = TRUE
    /\ sigConn' = IF conn # Nil /\ closes[conn] = 0 THEN conn ELSE Nil
    /\ UNCHANGED <<hashVars, unitVars, mainpc, notify, watcherVars, workerVars, stale>>

\* <-globalCtx.Done() returns: os.Exit(0) at once, or, when ENV is
\* "production" (read at startup, used here only), the 100 ms sleep first
MainDone ==
    /\ mainpc = "wait"
    /\ cancelled
    /\ \E isProduction \in BOOLEAN :
        mainpc' = IF isProduction THEN "grace" ELSE "exited"
    /\ UNCHANGED <<hashVars, unitVars, cancelled, sigConn, notify, watcherVars, workerVars, stale>>

\* the 100 ms sleep ends and main returns, which ends the process
MainReturn ==
    /\ mainpc = "grace"
    /\ mainpc' = "exited"
    /\ UNCHANGED <<hashVars, unitVars, cancelled, sigConn, notify, watcherVars, workerVars, stale>>

\* ------------------------------------------------------------- dnsWatcher
\* select { case <-globalCtx.Done(): return; default: }
WatcherCheck ==
    /\ Running
    /\ wpc = "check"
    /\ wpc' = IF cancelled THEN "done" ELSE "resolve"
    /\ sentIter' = 0
    /\ UNCHANGED <<hashVars, unitVars, cancelled, mainVars, notify, lastHash, consecutiveFail, addrs,
                   lastPoll, ended, streak, workerVars, stale>>

\* (variant of the failed resolution below: a failure forgets lastHash)
WatcherResolveErrForgetsHash ==
    /\ Running
    /\ wpc = "resolve"
    /\ streak < MaxStreak
    /\ consecutiveFail' = consecutiveFail + 1
    /\ wpc' = IF ThresholdReached(consecutiveFail + 1) THEN "notifyFail" ELSE "sleep"
    /\ lastPoll' = "fail"
    /\ streak' = streak + 1
    /\ lastHash' = EmptyString
    /\ UNCHANGED <<hashVars, unitVars, cancelled, mainVars, notify, addrs, ended, sentIter,
                   workerVars, stale>>

\* resolvePods returns an error: count it, and at the threshold go to the send
WatcherResolveErr ==
    /\ Running
    /\ wpc = "resolve"
    /\ streak < MaxStreak
    /\ consecutiveFail' = consecutiveFail + 1
    /\ wpc' = IF ThresholdReached(consecutiveFail + 1) THEN "notifyFail" ELSE "sleep"
    /\ lastPoll' = "fail"
    /\ streak' = streak + 1
    /\ UNCHANGED <<hashVars, unitVars, cancelled, mainVars, notify, lastHash, addrs, ended, sentIter,
                   workerVars, stale>>

\* (variant of the send below: the watcher also drops the connection)
WatcherNotifyFailDropsConn ==
    /\ Running
    /\ wpc = "notifyFail"
    /\ ChanCanSend(notify)
    /\ notify' = ChanAfterSend(notify)
    /\ consecutiveFail' = 0
    /\ sentIter' = sentIter + 1
    /\ wpc' = "sleep"
    /\ conn' = Nil
    /\ client' = Nil
    /\ UNCHANGED <<hashVars, unitVars, cancelled, mainVars, lastHash, addrs, lastPoll, ended, streak,
                   kpc, closes, opened, lastConnect, stale>>

\* (variant of the send below: the counter is not reset after the send)
WatcherNotifyFailKeepsCount ==
    /\ Running
    /\ wpc = "notifyFail"
    /\ ChanCanSend(notify)
    /\ notify' = ChanAfterSend(notify)
    /\ consecutiveFail' = consecutiveFail
    /\ sentIter' = sentIter + 1
    /\ wpc' = "sleep"
    /\ UNCHANGED <<hashVars, unitVars, cancelled, mainVars, lastHash, addrs, lastPoll, ended, streak,
                   workerVars, stale>>

\* notify <- struct{}{} ; consecutiveFail = 0  (the send waits for room)
WatcherNotifyFail ==
    /\ Running
    /\ wpc = "notifyFail"
    /\ ChanCanSend(notify)
    /\ notify' = ChanAfterSend(notify)
    /\ consecutiveFail' = 0
    /\ sentIter' = sentIter + 1
    /\ wpc' = "sleep"
    /\ UNCHANGED <<hashVars, unitVars, cancelled, mainVars, lastHash, addrs, lastPoll, ended, streak,
                   workerVars, stale>>

\* resolvePods returns a list: reset the counter, sort, hash, compare
WatcherResolveOk ==
    /\ Running
    /\ wpc = "resolve"
    /\ \E a \in PollLists :
        LET newHash == hashAddresses(SortStrings(a))
            changed == HashDiffers(newHash, lastHash)
        IN  /\ addrs' = a
            /\ consecutiveFail' = CounterAfterSuccess(consecutiveFail)
            /\ lastHash' = IF changed THEN LastHashAfterChange(newHash, lastHash)
                           ELSE lastHash
            /\ wpc' = IF changed THEN "notifyChange" ELSE "sleep"
            /\ stale' = IF changed THEN 1 ELSE stale
            /\ lastPoll' = IF lastHash = EmptyString THEN "changed"
                           ELSE IF a = addrs THEN "same"
                           ELSE IF IsPermutation(a, addrs) THEN "reordered"
                           ELSE "changed"
    /\ ended' = IF streak < FailThreshold THEN streak ELSE 0
    /\ streak' = 0
    /\ UNCHANGED <<hashVars, unitVars, cancelled, mainVars, notify, sentIter, workerVars>>

\* notify <- struct{}{} after a change of hash (the send waits for room)
WatcherNotifyChange ==
    /\ Running
    /\ wpc = "notifyChange"
    /\ ChanCanSend(notify)
    /\ notify' = ChanAfterSend(notify)
    /\ sentIter' = sentIter + 1
    /\ wpc' = "sleep"
    /\ UNCHANGED <<hashVars, unitVars, cancelled, mainVars, lastHash, consecutiveFail, addrs, lastPoll,
                   ended, streak, workerVars, stale>>

\* time.Sleep(cfg.DnsResolverDelayMs) and back to the top of the loop
WatcherSleep ==
    /\ Running
    /\ wpc = "sleep"
    /\ wpc' = "check"
    /\ UNCHANGED <<hashVars, unitVars, cancelled, mainVars, notify, lastHash, consecutiveFail, addrs,
                   lastPoll, ended, streak, sentIter, workerVars, stale>>

WatcherNext ==
    \/ WatcherCheck
    \/ WatcherResolveErr
    \/ WatcherNotifyFail
    \/ WatcherResolveOk
    \/ WatcherNotifyChange
    \/ WatcherSleep

\* ------------------------------------------------------ connect/disconnect
\* connect(): grpc.NewClient returns a connection, or nil and an error; the
\* assignment to conn happens either way, the one to client on success only
ConnectOk ==
    /\ opened < MaxConn
    /\ opened' = opened + 1
    /\ conn' = opened + 1
    /\ client' = opened + 1
    /\ lastConnect' = "ok"

\* (variant: a failed connect that leaves conn as it was)
ConnectErrKeepsConn ==
    /\ conn' = conn
    /\ lastConnect' = "err"
    /\ UNCHANGED <<client, opened>>

ConnectErr ==
    /\ conn' = Nil
    /\ lastConnect' = "err"
    /\ UNCHANGED <<client, opened>>

\* (variant of disconnect below: the connection is not closed)
DisconnectSkipsClose ==
    closes' = closes

\* disconnect(): if conn != nil { conn.Close() }
Disconnect ==
    closes' = IF conn # Nil THEN [closes EXCEPT ![conn] = @ + 1] ELSE closes

\* ------------------------------------------------------------- grpcWorker
\* (variant of the start below: the worker returns when the connect fails)
WorkerStartReturnsOnError ==
    /\ Running
    /\ kpc = "start"
    /\ \/ (ConnectOk /\ kpc' = "select")
       \/ (ConnectErr /\ kpc' = "deferred")
    /\ UNCHANGED <<hashVars, unitVars, cancelled, mainVars, notify, watcherVars, closes, stale>>

\* defer disconnect(...); err := connect(...)
WorkerStart ==
    /\ Running
    /\ kpc = "start"
    /\ (ConnectOk \/ ConnectErr)
    /\ kpc' = "select"
    /\ UNCHANGED <<hashVars, unitVars, cancelled, mainVars, notify, watcherVars, closes, stale>>

\* case <-globalCtx.Done(): return  (the deferred disconnect runs next)
WorkerSelectDone ==
    /\ Running
    /\ kpc = "select"
    /\ cancelled
    /\ kpc' = "deferred"
    /\ UNCHANGED <<hashVars, unitVars, cancelled, mainVars, notify, watcherVars, conn, client, closes,
                   opened, lastConnect, stale>>

\* case <-notify: a value is received and the reconnect begins
WorkerSelectNotify ==
    /\ Running
    /\ kpc = "select"
    /\ notify > 0
    /\ notify' = ChanAfterRecv(notify)
    /\ kpc' = "disconnect"
    /\ stale' = IF stale = 1 THEN 2 ELSE stale
    /\ UNCHANGED <<hashVars, unitVars, cancelled, mainVars, watcherVars, conn, client, closes, opened,
                   lastConnect>>

\* (variant of the default branch below: the call is made without the test)
WorkerSelectDefaultAlwaysCalls ==
    /\ Running
    /\ kpc = "select"
    /\ ~cancelled
    /\ notify = 0
    /\ kpc' = "call"
    /\ UNCHANGED <<hashVars, unitVars, cancelled, mainVars, notify, watcherVars, conn, client, closes,
                   opened, lastConnect, stale>>

\* (variant of the default branch below: a select without default, which
\* waits until one of its channels is ready)
WorkerSelectDefaultAbsent ==
    /\ Running
    /\ kpc = "select"
    /\ FALSE
    /\ UNCHANGED vars

\* default: taken only when neither channel is ready; if client != nil ...
WorkerSelectDefault ==
    /\ Running
    /\ kpc = "select"
    /\ ~cancelled
    /\ notify = 0
    /\ kpc' = IF client # Nil THEN "call" ELSE "backoff"
    /\ UNCHANGED <<hashVars, unitVars, cancelled, mainVars, notify, watcherVars, conn, client, closes,
                   opened, lastConnect, stale>>

\* disconnect(globalCtx) of the reconnect
WorkerDisconnect ==
    /\ Running
    /\ kpc = "disconnect"
    /\ Disconnect
    /\ kpc' = "connect"
    /\ UNCHANGED <<hashVars, unitVars, cancelled, mainVars, notify, watcherVars, conn, client, opened,
                   lastConnect, stale>>

\* connect(globalCtx, cfg.ExternalGRPC) of the reconnect, result ignored
WorkerConnect ==
    /\ Running
    /\ kpc = "connect"
    /\ (ConnectOk \/ ConnectErr)
    /\ kpc' = "select"
    /\ stale' = IF stale = 2 THEN 0 ELSE stale
    /\ UNCHANGED <<hashVars, unitVars, cancelled, mainVars, notify, watcherVars, closes>>

\* (variant of the call below: a call that fails starts a reconnect)
WorkerCallReconnects ==
    /\ Running
    /\ kpc = "call"
    /\ \E outcome \in {"ok", "timeout", "unavailable"} :
        kpc' = IF outcome = "ok" THEN "backoff" ELSE "disconnect"
    /\ UNCHANGED <<hashVars, unitVars, cancelled, mainVars, notify, watcherVars, conn, client, closes,
                   opened, lastConnect, stale>>

\* client.GetAll with a 3 s timeout: it returns a response or an error, which
\* is logged; nothing else changes
WorkerCall ==
    /\ Running
    /\ kpc = "call"
    /\ \E outcome \in {"ok", "timeout", "unavailable"} : kpc' = "backoff"
    /\ UNCHANGED <<hashVars, unitVars, cancelled, mainVars, notify, watcherVars, conn, client, closes,
                   opened, lastConnect, stale>>

\* (variant of the backoff below: a failed connect is retried after the sleep)
WorkerBackoffRetries ==
    /\ Running
    /\ kpc = "backoff"
    /\ kpc' = IF lastConnect = "err" THEN "connect" ELSE "select"
    /\ UNCHANGED <<hashVars, unitVars, cancelled, mainVars, notify, watcherVars, conn, client, closes,
                   opened, lastConnect, stale>>

\* time.Sleep(rand.Intn(max)+1 ms) and back to the select
WorkerBackoff ==
    /\ Running
    /\ kpc = "backoff"
    /\ kpc' = "select"
    /\ UNCHANGED <<hashVars, unitVars, cancelled, mainVars, notify, watcherVars, conn, client, closes,
                   opened, lastConnect, stale>>

\* the deferred disconnect(globalCtx) on return
WorkerDeferred ==
    /\ Running
    /\ kpc = "deferred"
    /\ Disconnect
    /\ kpc' = "done"
    /\ UNCHANGED <<hashVars, unitVars, cancelled, mainVars, notify, watcherVars, conn, client, opened,
                   lastConnect, stale>>

WorkerNext ==
    \/ WorkerStart
    \/ WorkerSelectDone
    \/ WorkerSelectNotify
    \/ WorkerSelectDefault
    \/ WorkerDisconnect
    \/ WorkerConnect
    \/ WorkerCall
    \/ WorkerBackoff
    \/ WorkerDeferred

MainNext == MainDone \/ MainReturn

Next == Signal \/ MainNext \/ WatcherNext \/ WorkerNext

Spec == Init /\ [][Next]_vars

\* The Go scheduler runs every runnable goroutine: a watcher, worker or main
\* step that stays possible is eventually taken.  The signal is not forced.
FairSpec ==
    /\ Spec
    /\ WF_vars(WatcherNext)
    /\ WF_vars(WorkerNext)
    /\ WF_vars(MainNext)


\* ------------------------------------------- the fingerprint computation
\* Lines 126-127 of dnsWatcher, sort.Strings(addrs) and hashAddresses(addrs),
\* applied to the lists of two successive successful resolutions, for every
\* pair of lists of AddrLists.
HashResolve ==
    /\ Init
    /\ hpc' = "first"
    /\ addrsA' \in AddrLists
    /\ addrsB' \in AddrLists
    /\ UNCHANGED <<hashA, hashB, unitVars, cancelled, mainVars, notify, watcherVars,
                   workerVars, stale>>

HashFirst ==
    /\ hpc = "first"
    /\ hashA' = hashAddresses(SortStrings(addrsA))
    /\ hpc' = "second"
    /\ UNCHANGED <<addrsA, addrsB, hashB, unitVars, cancelled, mainVars, notify, watcherVars,
                   workerVars, stale>>

HashSecond ==
    /\ hpc = "second"
    /\ hashB' = hashAddresses(SortStrings(addrsB))
    /\ hpc' = "done"
    /\ UNCHANGED <<addrsA, addrsB, hashA, unitVars, cancelled, mainVars, notify, watcherVars,
                   workerVars, stale>>

HashNext == HashResolve \/ HashFirst \/ HashSecond

HashSpec == Init /\ [][HashNext]_vars

\* --------------------------------------------- functions taken one by one
\* disconnect(), the delay computation with the configuration loader before
\* it, and the watcher's preparation of the host name, each applied to inputs
\* the program can have.

\* the globals before a disconnect(): no connection was returned yet, or the
\* latest one is open and is conn, or the latest connect failed and conn is
\* nil; every earlier connection has been closed
DisconnectSetup ==
    /\ Init
    /\ upc' = "disconnect"
    /\ \E n \in 0..MaxConn, held \in BOOLEAN :
        /\ held => n > 0
        /\ opened' = n
        /\ conn' = IF held THEN n ELSE Nil
        /\ client' = n
        /\ closes' = [c \in Conns |-> IF c < n \/ (c = n /\ ~held) THEN 1 ELSE 0]
    /\ UNCHANGED <<hashVars, val, ClientMaxSleepMs, delay, host, cleanHost, cancelled,
                   mainVars, notify, watcherVars, kpc, lastConnect, stale>>

\* disconnect(globalCtx)
DisconnectOnce ==
    /\ upc = "disconnect"
    /\ Disconnect
    /\ upc' = "disconnected"
    /\ UNCHANGED <<hashVars, val, ClientMaxSleepMs, delay, host, cleanHost, cancelled,
                   mainVars, notify, watcherVars, kpc, conn, client, opened, lastConnect,
                   stale>>

\* disconnect(globalCtx) directly after a disconnect(globalCtx)
DisconnectAgain ==
    /\ upc = "disconnected"
    /\ Disconnect
    /\ upc' = "disconnected twice"
    /\ UNCHANGED <<hashVars, val, ClientMaxSleepMs, delay, host, cleanHost, cancelled,
                   mainVars, notify, watcherVars, kpc, conn, client, opened, lastConnect,
                   stale>>

\* os.Getenv("CLIENT_MAX_SLEEP_MS")
SetInt64Getenv ==
    /\ Init
    /\ upc' = "getenv"
    /\ val' \in EnvValues
    /\ UNCHANGED <<hashVars, ClientMaxSleepMs, delay, host, cleanHost, cancelled,
                   mainVars, notify, watcherVars, workerVars, stale>>

\* ClientMaxSleepMs: setInt64("CLIENT_MAX_SLEEP_MS")
SetInt64Return ==
    /\ upc = "getenv"
    /\ ClientMaxSleepMs' = setInt64(val)
    /\ upc' = "loaded"
    /\ UNCHANGED <<hashVars, val, delay, host, cleanHost, cancelled,
                   mainVars, notify, watcherVars, workerVars, stale>>

\* delay := rand.Intn(int(cfg.ClientMaxSleepMs)) + 1 ms; time.Sleep(delay)
BackoffDelay ==
    /\ upc = "loaded"
    /\ ~IntnPanics(ClientMaxSleepMs)
    /\ delay' \in DelayOutcomes(ClientMaxSleepMs)
    /\ upc' = "slept"
    /\ UNCHANGED <<hashVars, val, ClientMaxSleepMs, host, cleanHost, cancelled,
                   mainVars, notify, watcherVars, workerVars, stale>>

\* rand.Intn panics ("invalid argument to Intn"): the worker goroutine and
\* with it the process ends
BackoffPanic ==
    /\ upc = "loaded"
    /\ IntnPanics(ClientMaxSleepMs)
    /\ upc' = "panic"
    /\ UNCHANGED <<hashVars, val, ClientMaxSleepMs, delay, host, cleanHost, cancelled,
                   mainVars, notify, watcherVars, workerVars, stale>>

\* dnsWatcher(globalCtx, cfg.ExternalGRPC, notify) is given its target
WatcherHostGiven ==
    /\ Init
    /\ upc' = "host"
    /\ host' \in Targets
    /\ UNCHANGED <<hashVars, val, ClientMaxSleepMs, delay, cleanHost, cancelled,
                   mainVars, notify, watcherVars, workerVars, stale>>

\* the statements before the watcher's loop
WatcherHostCleaned ==
    /\ upc = "host"
    /\ cleanHost' = CleanHost(host)
    /\ upc' = "cleaned"
    /\ UNCHANGED <<hashVars, val, ClientMaxSleepMs, delay, host, cancelled,
                   mainVars, notify, watcherVars, workerVars, stale>>

UnitNext ==
    \/ WatcherHostGiven
    \/ WatcherHostCleaned
    \/ DisconnectSetup
    \/ DisconnectOnce
    \/ DisconnectAgain
    \/ SetInt64Getenv
    \/ SetInt64Return
    \/ BackoffDelay
    \/ BackoffPanic

UnitSpec == Init /\ [][UnitNext]_vars

\* ================================================================= claims

\* C1: in every reachable state the channel notify holds at most one pending
\* signal, however many change and threshold events the watcher has while
\* the worker has not received.
C1_AtMostOnePending == notify \in {0, 1}

\* a signal is pending and the watcher has the next one to send
C1_Witness ==
    /\ notify = 1
    /\ wpc \in {"notifyFail", "notifyChange"}
    /\ kpc \notin {"deferred", "done"}

\* C2: the watcher's send does not block: at a send with the channel full the
\* watcher can go on (to its sleep) without the worker receiving first.
C2_NonBlockingSend ==
    (Running /\ wpc \in {"notifyFail", "notifyChange"}) => ENABLED WatcherNext

\* C3: counted from the latest success (counter 0), the first and second
\* failed resolution send nothing and leave the counter at 1 and 2, the third
\* sends exactly one signal and leaves it at 0, the fourth sends nothing and
\* leaves it at 1; the watcher is at the threshold send only on a third failure.
C3_ThresholdTrigger ==
    /\ (wpc = "sleep" /\ lastPoll = "fail") =>
          /\ (streak = 1 => consecutiveFail = 1 /\ sentIter = 0)
          /\ (streak = 2 => consecutiveFail = 2 /\ sentIter = 0)
          /\ (streak = 3 => consecutiveFail = 0 /\ sentIter = 1)
          /\ (streak = 4 => consecutiveFail = 1 /\ sentIter = 0)
    /\ (wpc = "notifyFail") => (streak % 3 = 0 /\ streak > 0 /\ sentIter = 0)

\* four consecutive failures have been counted
C3_Witness ==
    /\ wpc = "sleep"
    /\ lastPoll = "fail"
    /\ streak = 4
    /\ consecutiveFail = 1

\* C4: the watcher reaches the threshold send only with three or more failures
\* since the latest success, a success leaves the counter at 0, and after it
\* the counter counts the failures since that success only.
C4_SuccessResets ==
    /\ (wpc = "notifyFail") => streak >= 3
    /\ PolledOk(lastPoll) => consecutiveFail = 0
    /\ (lastPoll = "fail" /\ wpc \in {"sleep", "check", "resolve"} /\ streak < 3)
          => consecutiveFail = streak

\* a success ended a run of one or two failures, and two failures followed
C4_Witness ==
    /\ ended \in {1, 2}
    /\ lastPoll = "fail"
    /\ streak = 2
    /\ wpc = "sleep"
    /\ sentIter = 0

\* C5: two lists that are permutations of each other get, after the sort, the
\* same hash.
C5_PermutationInvariant ==
    (hpc = "done" /\ IsPermutation(addrsA, addrsB)) => hashA = hashB

\* two different addresses in both orders have been hashed
C5_Witness ==
    /\ hpc = "done"
    /\ addrsA = <<Addr2, Addr1>>
    /\ addrsB = <<Addr1, Addr2>>

\* C6: two lists whose addresses differ (other members, or the same members
\* another number of times) get, after the sort, different hashes.
C6_DifferentMembersDiffer ==
    (hpc = "done" /\ ~IsPermutation(addrsA, addrsB)) => hashA # hashB

\* a list and the same list with one more address have been hashed
C6_Witness ==
    /\ hpc = "done"
    /\ addrsA = <<Addr1>>
    /\ addrsB = <<Addr1, Addr3>>

C8_Steps ==
    /\ [][ ( /\ wpc = "resolve"
             /\ wpc' # "resolve"
             /\ PolledOk(lastPoll')
             /\ hashAddresses(SortStrings(addrs')) # lastHash )
           => ( /\ lastHash' = hashAddresses(SortStrings(addrs'))
                /\ wpc' = "notifyChange"
                /\ sentIter' = 0 ) ]_vars
    /\ [][ (wpc = "notifyChange" /\ wpc' # "notifyChange")
           => (notify' = notify + 1 /\ sentIter' = 1 /\ wpc' = "sleep") ]_vars
    /\ [][ (notify' < notify) => (kpc = "select" /\ kpc' = "disconnect") ]_vars
    /\ [][ (kpc = "disconnect" /\ kpc' # "disconnect") => kpc' = "connect" ]_vars
    /\ [][ (kpc = "connect" /\ kpc' # "connect")
           => (kpc' = "select" /\ lastConnect' \in {"ok", "err"}) ]_vars

\* C8 as amended: a successful resolution with a new hash stores it and makes
\* exactly one send in that iteration; unless cancellation is requested first,
\* the sent signal is received and the worker runs one disconnect and then
\* one connect for it.
C8_ChangeSignalRebuild ==
    /\ C8_Steps
    /\ (notify = 1) ~> (notify = 0 \/ cancelled)
    /\ (kpc \in {"disconnect", "connect"}) ~> (kpc = "select" \/ cancelled)

\* C8 as stated: the sent signal is always received and the handle rebuilt.
C8_AlwaysRebuilt ==
    /\ C8_Steps
    /\ (notify = 1) ~> (notify = 0)
    /\ (kpc \in {"disconnect", "connect"}) ~> (kpc = "select")

\* a changed membership was signalled in this iteration, the signal has been
\* received and the reconnect for it is complete
C8_Witness ==
    /\ lastPoll = "changed"
    /\ wpc = "sleep"
    /\ sentIter = 1
    /\ notify = 0
    /\ kpc = "select"
    /\ stale = 0
    /\ ~cancelled

\* C9: without cancellation, after the watcher has observed a change a
\* reconnect begins, and that reconnect is completed unless the watcher
\* observes another change first.
C9_EventualConvergence ==
    /\ (stale = 1) ~> (stale = 2 \/ cancelled)
    /\ (stale = 2) ~> (stale # 2 \/ cancelled)

\* the membership changed, the next resolution returned the same members, and
\* a reconnect begun after the change has connected
C9_Witness ==
    /\ lastPoll \in {"same", "reordered"}
    /\ stale = 0
    /\ lastConnect = "ok"
    /\ ~cancelled

\* C10: a worker iteration that takes the default branch while the latest
\* connect() failed, or none has succeeded, issues no call and goes to the
\* backoff sleep.
C10_NoHandleNoCall ==
    [][ (kpc = "select" /\ kpc' \in {"call", "backoff"} /\ lastConnect # "ok")
        => kpc' = "backoff" ]_vars

\* C11: after cancellation the watcher and the worker both terminate, from
\* every interleaving and every content of notify; so while the process runs
\* after cancellation, a task that has not returned can still do so: the
\* worker has a step to take, and once the worker has returned (no one is
\* left to receive from notify) the watcher has a step to take.
C11_TerminateAfterCancel ==
    (cancelled /\ Running) =>
        /\ (kpc = "done" \/ ENABLED WorkerNext)
        /\ (kpc = "done" => (wpc = "done" \/ ENABLED WatcherNext))

\* C12: no connection is closed more than once, and when the worker has
\* returned after cancellation every connection it opened, the latest one
\* included, has been closed exactly once.
C12_ClosedOnce ==
    /\ \A c \in Conns : closes[c] <= 1
    /\ (kpc = "done") => (\A c \in 1..opened : closes[c] = 1)

\* a first connection was replaced in a reconnect, a later reconnect failed,
\* and the worker has returned
C12_Witness ==
    /\ kpc = "done"
    /\ opened = 2
    /\ lastConnect = "err"
    /\ closes[1] = 1
    /\ closes[2] = 1

\* C13: when the process has exited after the signal, the connection that was
\* open when the signal arrived, if there was one, has been closed.
C13_ClosedBeforeExit ==
    (mainpc = "exited" /\ sigConn # Nil) => closes[sigConn] = 1

\* C14: the call step, whatever its outcome, goes to the backoff and leaves
\* conn, client, the connections and notify as they are; a reconnect begins
\* only at the select, by receiving one value from notify; and a value enters
\* notify only by a watcher send, made after a change of hash or at the
\* failure threshold.
C14_CallNeverReconnects ==
    /\ [][ (kpc = "call" /\ kpc' # "call")
           => ( /\ kpc' = "backoff"
                /\ conn' = conn /\ client' = client
                /\ closes' = closes /\ opened' = opened
                /\ notify' = notify ) ]_vars
    /\ [][ (kpc' = "disconnect" /\ kpc # "disconnect")
           => (kpc = "select" /\ notify' = notify - 1) ]_vars
    /\ [][ (conn' # conn \/ client' # client \/ opened' # opened)
           => kpc \in {"start", "connect"} ]_vars
    /\ [][ (closes' # closes) => kpc \in {"disconnect", "deferred"} ]_vars
    /\ [][ (notify' > notify)
           => ( /\ wpc \in {"notifyFail", "notifyChange"}
                /\ notify' = notify + 1
                /\ wpc = "notifyChange" => lastPoll = "changed"
                /\ wpc = "notifyFail" => consecutiveFail >= FailThreshold ) ]_vars

\* a call has returned with a signal pending, and the connection it used is
\* still the open one
C14_Witness ==
    /\ kpc = "backoff"
    /\ client # Nil
    /\ conn = client
    /\ closes[conn] = 0
    /\ notify = 1
    /\ ~cancelled

\* C15: while cancellation has not been requested, whatever resolutions,
\* connects and calls have failed, the watcher and the worker have not
\* returned (nor begun to) and main still waits; and the watcher returns
\* only from its Done check with cancellation requested.
C15_FailuresNeverTerminate ==
    /\ [](~cancelled => ( /\ wpc # "done"
                         /\ kpc \notin {"deferred", "done"}
                         /\ mainpc = "wait" ))
    /\ [][ (wpc' = "done" /\ wpc # "done") => (wpc = "check" /\ cancelled) ]_vars

\* four resolutions in a row have failed, the latest connect failed and a
\* call has been made since, and no task has stopped
C15_Witness ==
    /\ ~cancelled
    /\ streak = 4
    /\ lastConnect = "err"
    /\ kpc = "backoff"
    /\ client # Nil
    /\ wpc = "sleep"
    /\ mainpc = "wait"

\* C16: every watcher step (Done check, failed or successful resolution,
\* send, sleep) leaves conn, client and the connections as they are; these
\* change only in a worker step.
C16_WatcherLeavesConnection ==
    /\ [][ (wpc' # wpc \/ watcherVars' # watcherVars \/ notify' > notify)
           => ( /\ conn' = conn /\ client' = client
                /\ closes' = closes /\ opened' = opened ) ]_vars
    /\ [][ (conn' # conn \/ client' # client \/ closes' # closes \/ opened' # opened)
           => (kpc' # kpc /\ watcherVars' = watcherVars) ]_vars

\* the watcher has made its threshold send and gone to sleep while a
\* connection is open
C16_Witness ==
    /\ wpc = "sleep"
    /\ lastPoll = "fail"
    /\ sentIter = 1
    /\ conn # Nil
    /\ client = conn
    /\ closes[conn] = 0

\* C17: two lists with the same set of distinct addresses get, after the
\* sort, the same hash, however often each address is repeated.
C17_DuplicatesIgnored ==
    (hpc = "done" /\ Range(addrsA) = Range(addrsB)) => hashA = hashB

\* C18: at the top of the watcher's loop and at the resolution that follows,
\* consecutiveFail is 0, 1 or 2 and is the number of failed resolutions since
\* the latest success or, if later, since the latest threshold send (made at
\* every third failure of a run).
C18_CounterAtPollStart ==
    (wpc \in {"check", "resolve"}) =>
        /\ consecutiveFail \in 0..(FailThreshold - 1)
        /\ consecutiveFail = streak % FailThreshold

\* a poll starts after four failures in a row: the third was signalled, the
\* fourth is counted
C18_Witness ==
    /\ wpc = "resolve"
    /\ streak = 4
    /\ consecutiveFail = 1
    /\ lastPoll = "fail"

\* C19: when the initial connect() has failed and no connect() has succeeded
\* since (in particular while no signal has been received), client is nil,
\* the worker is never in a call, and every iteration that neither returns
\* nor receives a signal goes from the select to the backoff sleep and from
\* there back to the select.
C19_NoCallAfterFailedStart ==
    /\ []((opened = 0) => (client = Nil /\ kpc # "call"))
    /\ [][ ( /\ kpc = "select"
             /\ opened = 0
             /\ lastConnect = "err"
             /\ kpc' \notin {"select", "disconnect", "deferred"} )
           => kpc' = "backoff" ]_vars
    /\ [][ (kpc = "backoff" /\ kpc' # "backoff") => kpc' = "select" ]_vars

\* the initial connect failed, the watcher has had two failed resolutions and
\* no success, so nothing was ever sent, and the worker is in its backoff
C19_Witness ==
    /\ kpc = "backoff"
    /\ opened = 0
    /\ lastConnect = "err"
    /\ lastHash = EmptyString
    /\ streak = 2
    /\ wpc = "sleep"
    /\ notify = 0
    /\ ~cancelled

\* C20: at most one connection is open (returned by grpc.NewClient and not
\* closed); an open connection is the one the latest successful connect()
\* returned and is the value of conn; and when the connect of a reconnect
\* runs, the disconnect before it has left no connection open.
C20_AtMostOneOpen ==
    /\ Cardinality({c \in 1..opened : closes[c] = 0}) <= 1
    /\ \A c \in 1..opened : (closes[c] = 0) => (c = opened /\ conn = c)
    /\ (kpc = "connect") => (\A c \in 1..opened : closes[c] >= 1)

\* a reconnect has replaced the first connection by a second one
C20_Witness ==
    /\ kpc = "select"
    /\ opened = 2
    /\ conn = 2
    /\ closes[1] = 1
    /\ closes[2] = 0

\* C21: in the iteration in which the worker receives a signal, after the
\* connect of the reconnect it goes on to the call (when client is set) or to
\* the backoff sleep, and comes to the select again only after that sleep.
C21_CallInReconnectIteration ==
    /\ [][ (kpc = "connect" /\ kpc' # "connect") => kpc' \in {"call", "backoff"} ]_vars
    /\ [][ (kpc' = "select" /\ kpc # "select") => kpc \in {"start", "backoff"} ]_vars

\* C22: once cancellation has been requested, the worker's step at the select
\* is the return: it begins no reconnect and no call, also with a signal
\* pending in notify.
C22_CancelBeatsPendingSignal ==
    [][ (cancelled /\ kpc = "select" /\ kpc' # "select") => kpc' = "deferred" ]_vars

\* C23: after a failed connect() the worker is without a connection (conn is
\* nil) and makes no connect attempt of its own: a connect is reached only
\* through the disconnect of a reconnect, which begins only by receiving a
\* value from notify, and every other step leaves conn, the opened
\* connections and the outcome of the latest connect as they are.
C23_NoRetryWithoutSignal ==
    /\ []((lastConnect = "err" /\ kpc \in {"select", "call", "backoff"}) => conn = Nil)
    /\ [][ (kpc' = "connect" /\ kpc # "connect") => kpc = "disconnect" ]_vars
    /\ [][ (kpc' = "disconnect" /\ kpc # "disconnect")
           => (kpc = "select" /\ notify = 1 /\ notify' = 0) ]_vars
    /\ [][ (lastConnect = "err" /\ kpc # "connect")
           => (conn' = conn /\ opened' = opened /\ lastConnect' = lastConnect) ]_vars

\* a reconnect has failed, nothing is pending, and the worker has gone through
\* its select to the backoff without a connection
C23_Witness ==
    /\ kpc = "backoff"
    /\ lastConnect = "err"
    /\ opened = 1
    /\ conn = Nil
    /\ notify = 0
    /\ wpc = "sleep"
    /\ ~cancelled

\* C24: disconnect() called with conn nil changes nothing, and a second
\* disconnect() directly after a first performs no Close(): it leaves the
\* connections as the first call left them.
C24_DisconnectIdempotent ==
    /\ [][ (upc \in {"disconnect", "disconnected"} /\ upc' # upc /\ conn = Nil)
           => (closes' = closes /\ conn' = conn /\ client' = client) ]_vars
    /\ [][ (upc = "disconnected" /\ upc' = "disconnected twice")
           => closes' = closes ]_vars

\* C25: for a ceiling ClientMaxSleepMs >= 1 the delays the computation can
\* give are exactly the whole numbers of milliseconds from 1 to the ceiling,
\* and the delay slept is one of them.
C25_DelayInRange ==
    /\ (upc = "loaded" /\ ClientMaxSleepMs >= 1)
          => DelayOutcomes(ClientMaxSleepMs) = 1..ClientMaxSleepMs
    /\ (upc = "slept")
          => (ClientMaxSleepMs >= 1 /\ delay \in 1..ClientMaxSleepMs)

\* with the ceiling 12 read from the environment the worker sleeps the
\* longest delay, 12 ms
C25_Witness ==
    /\ upc = "slept"
    /\ val = <<"1", "2">>
    /\ ClientMaxSleepMs = 12
    /\ delay = 12

\* C30: for every value of the ceiling that setInt64 can return, a parsed
\* 16-bit value or the fallback, the delay computation does not panic and
\* gives a delay from 1 to the ceiling.
C30_BackoffNeverFaults ==
    /\ upc # "panic"
    /\ (upc = "loaded") => ~IntnPanics(ClientMaxSleepMs)
    /\ (upc = "slept") => delay \in 1..ClientMaxSleepMs

\* C26: for every target made of an optional marker, a host name and an
\* optional port, the name the watcher resolves is the host name, whole and
\* unchanged.
C26_HostStripped ==
    (upc = "cleaned") =>
        \A m \in Markers, h \in Hosts, p \in Ports :
            (host = m \o h \o p) => cleanHost = h

\* a target with the marker with three slashes and a port has been cleaned
C26_Witness ==
    /\ upc = "cleaned"
    /\ host = DnsPrefix \o <<"/", "d", ".", "s", ":", "5", "0">>
    /\ cleanHost = <<"d", ".", "s">>

\* C27: the worker at its select always has a step to take; with notify
\* empty and no cancellation that step is the default branch, on to the call
\* or the backoff; and no worker step puts a value into notify.
C27_WorkerNeverWaits ==
    /\ []((Running /\ kpc = "select") => ENABLED WorkerNext)
    /\ [][ (kpc = "select" /\ kpc' # "select" /\ notify = 0 /\ ~cancelled)
           => (kpc' \in {"call", "backoff"} /\ notify' = 0) ]_vars
    /\ [][ (kpc' # kpc) => notify' <= notify ]_vars

\* the worker has gone through its select to the call with notify empty
C27_Witness ==
    /\ kpc = "call"
    /\ notify = 0
    /\ lastPoll = "same"
    /\ wpc = "sleep"
    /\ ~cancelled

\* the watcher's step at its first successful resolution: lastHash is still
\* the empty string, and whatever list comes back, the empty one included,
\* the new hash differs from it, is stored, and the watcher goes to the send
C28_FirstStep ==
    [][ ( /\ wpc = "resolve"
          /\ wpc' # "resolve"
          /\ PolledOk(lastPoll')
          /\ lastHash = EmptyString )
        => ( /\ hashAddresses(SortStrings(addrs')) # EmptyString
             /\ lastHash' = hashAddresses(SortStrings(addrs'))
             /\ wpc' = "notifyChange"
             /\ stale' = 1 ) ]_vars

\* C28 as amended: the first successful resolution always takes the watcher
\* to the send of a signal; unless cancellation is requested first, the send
\* is made and the worker begins the rebuild of its connection.
C28_FirstResolutionSignals ==
    /\ C28_FirstStep
    /\ (wpc = "notifyChange") ~> (wpc = "sleep" \/ cancelled)
    /\ (notify = 1) ~> (kpc = "disconnect" \/ cancelled)

\* C28 as stated: the signal is always sent and the worker always rebuilds.
C28_AlwaysSignalsAndRebuilds ==
    /\ C28_FirstStep
    /\ (wpc = "notifyChange") ~> (wpc = "sleep")
    /\ (notify = 1) ~> (kpc = "disconnect")

\* the first successful resolution returned the empty list and the watcher is
\* at the send (the worker has not started, so nothing was sent before)
C28_Witness ==
    /\ wpc = "notifyChange"
    /\ addrs = <<>>
    /\ lastPoll = "changed"
    /\ lastHash # EmptyString
    /\ notify = 0
    /\ kpc = "start"
    /\ ~cancelled

====
